---- MODULE Spec2Model ----
(***************************************************************************)
(* MP3 Auto Organizer: the per-file pipeline of src/main.py (identify,     *)
(* resolve, back-fill, tag, organize) over a file tree, the tag store and  *)
(* the metadata service's rate limiter.                                    *)
(*                                                                         *)
(* Representation.  A Python str is a tuple of one-character strings, so   *)
(* that character-level code (sanitize_filename, str(), int(), slicing) is *)
(* computed and not assumed.  A path is a tuple of components, each one a  *)
(* str.  None is the value None for a str-valued field.  An Optional[int]  *)
(* field holds NoneInt for None and SomeInt(n) for the int n, so that no   *)
(* int is taken for None.  Time is counted in ticks, TicksPerSecond to a   *)
(* second.                                                                 *)
(***************************************************************************)
EXTENDS Integers, Sequences, FiniteSets, TLC

(* ------------------------------ bounds -------------------------------- *)

\* ticks of the clock in one second
TicksPerSecond == 2
\* the most the clock advances between two consecutive readings (ticks)
MaxDelay == 1
\* the clock reading beyond which no further request is modelled (ticks)
MaxTime == 8
\* the most direct calls of update_tags or of move_file in one run
MaxCalls == 3
\* the longest name drawn character by character
MaxLen == 3
\* the longest list of releases or of match candidates drawn
MaxList == 2

(* --------------------------- Python values ---------------------------- *)

\* None, as the value of an Optional[str] field
None == <<"<None>">>
\* None, as the value of an Optional[int] field, and the int n as one
NoneInt == <<>>
SomeInt(n) == <<n>>
IntOf(x) == x[1]

Max2(a, b) == IF a >= b THEN a ELSE b

Digit(d) == CASE d = 0 -> "0" [] d = 1 -> "1" [] d = 2 -> "2" [] d = 3 -> "3"
              [] d = 4 -> "4" [] d = 5 -> "5" [] d = 6 -> "6" [] d = 7 -> "7"
              [] d = 8 -> "8" [] d = 9 -> "9"

DigitChars == {"0", "1", "2", "3", "4", "5", "6", "7", "8", "9"}

DigitVal(c) == CASE c = "0" -> 0 [] c = "1" -> 1 [] c = "2" -> 2 [] c = "3" -> 3
                 [] c = "4" -> 4 [] c = "5" -> 5 [] c = "6" -> 6 [] c = "7" -> 7
                 [] c = "8" -> 8 [] c = "9" -> 9

\* str(n) for an int n
RECURSIVE NatToStr(_)
NatToStr(n) == IF n < 10 THEN <<Digit(n)>>
               ELSE NatToStr(n \div 10) \o <<Digit(n % 10)>>

IntToStr(n) == IF n < 0 THEN <<"-">> \o NatToStr(0 - n) ELSE NatToStr(n)

\* f"{n:02d}"
ZeroPad2(n) == IF n >= 0 /\ n < 10 THEN <<"0">> \o NatToStr(n) ELSE IntToStr(n)

\* s[:k]
Prefix(s, k) == SubSeq(s, 1, IF Len(s) < k THEN Len(s) ELSE k)

RECURSIVE DigitsVal(_)
DigitsVal(s) == IF Len(s) = 0 THEN 0
                ELSE 10 * DigitsVal(SubSeq(s, 1, Len(s) - 1)) + DigitVal(s[Len(s)])

\* int(s): ok is FALSE where int raises ValueError.  Decimal digits with an
\* optional leading minus sign are the strings the model feeds it.
ParseInt(s) ==
    LET neg  == Len(s) > 0 /\ s[1] = "-"
        body == IF neg THEN SubSeq(s, 2, Len(s)) ELSE s
        good == Len(body) > 0 /\ \A i \in 1..Len(body) : body[i] \in DigitChars
    IN  IF good
        THEN [ok |-> TRUE, n |-> IF neg THEN 0 - DigitsVal(body) ELSE DigitsVal(body)]
        ELSE [ok |-> FALSE, n |-> 0]

\* the value of dict.get(key, default) on a function used as a dict
Get(d, key, default) == IF key \in DOMAIN d THEN d[key] ELSE default

\* truthiness of an Optional[str] / Optional[int]
TruthyStr(s) == s /= None /\ Len(s) > 0
TruthyInt(x) == x /= NoneInt /\ IntOf(x) /= 0

(* ------------------------------ strings ------------------------------- *)

\* string literals of the source, spelled out character by character
UnknownTitle  == <<"U","n","k","n","o","w","n"," ","T","i","t","l","e">>
UnknownArtist == <<"U","n","k","n","o","w","n"," ","A","r","t","i","s","t">>
UnknownAlbum  == <<"U","n","k","n","o","w","n"," ","A","l","b","u","m">>
UnknownYear   == <<"U","n","k","n","o","w","n"," ","Y","e","a","r">>
Unknown       == <<"U","n","k","n","o","w","n">>
StrOfficial == <<"o","f","f","i","c","i","a","l">>
StrAlbum == <<"a","l","b","u","m">>
StrEP == <<"e","p">>
StrSingle == <<"s","i","n","g","l","e">>
Compilation   == <<"C","o","m","p","i","l","a","t","i","o","n">>
DotMp3        == <<".","m","p","3">>
EmptyStr      == <<>>

UpperLetters == <<"A","B","C","D","E","F","G","H","I","J","K","L","M",
                  "N","O","P","Q","R","S","T","U","V","W","X","Y","Z">>
LowerLetters == <<"a","b","c","d","e","f","g","h","i","j","k","l","m",
                  "n","o","p","q","r","s","t","u","v","w","x","y","z">>

LowerChar(c) == IF \E i \in 1..26 : UpperLetters[i] = c
                THEN LowerLetters[CHOOSE i \in 1..26 : UpperLetters[i] = c]
                ELSE c

\* s.lower()
Lower(s) == [i \in 1..Len(s) |-> LowerChar(s[i])]

\* the characters \s matches and str.strip() strips
Whitespace == {" ", "\t", "\n"}

\* s with every character of cs removed
RemoveChars(s, cs) == SelectSeq(s, LAMBDA c : c \notin cs)

\* s without its leading characters of cs
LStrip(s, cs) ==
    IF \A i \in 1..Len(s) : s[i] \in cs THEN <<>>
    ELSE SubSeq(s, CHOOSE i \in 1..Len(s) :
                       s[i] \notin cs /\ \A j \in 1..(i - 1) : s[j] \in cs,
                Len(s))

\* s without its trailing characters of cs
RStrip(s, cs) ==
    IF \A i \in 1..Len(s) : s[i] \in cs THEN <<>>
    ELSE SubSeq(s, 1, CHOOSE i \in 1..Len(s) :
                          s[i] \notin cs /\ \A j \in (i + 1)..Len(s) : s[j] \in cs)

\* s.strip(cs)
Strip(s, cs) == RStrip(LStrip(s, cs), cs)

\* "".join(parts)
RECURSIVE Join(_)
Join(parts) == IF Len(parts) = 0 THEN <<>> ELSE parts[1] \o Join(Tail(parts))

\* item in list
InList(x, l) == \E i \in 1..Len(l) : l[i] = x

\* The mutant of ArgMaxFirst: the last item whose key is the greatest.
ArgMaxLast(keys) ==
    CHOOSE i \in 1..Len(keys) :
        /\ \A j \in 1..Len(keys) : keys[j] <= keys[i]
        /\ \A j \in (i + 1)..Len(keys) : keys[j] < keys[i]

\* max(items, key=...): the first item whose key is the greatest
ArgMaxFirst(keys) ==
    CHOOSE i \in 1..Len(keys) :
        /\ \A j \in 1..Len(keys) : keys[j] <= keys[i]
        /\ \A j \in 1..(i - 1) : keys[j] < keys[i]

(* ---------------------------- fingerprint.py -------------------------- *)

\* scores are confidences in [0, 1], counted in hundredths
ScoreScale == 100
\* the 0.5 of get_best_match
MinScore == ScoreScale \div 2

\* The reply of acoustid.match: a record whose kind is "fingerprint_error"
\* (FingerprintGenerationError), "webservice_error" (WebServiceError) or
\* "response" (the decoded reply, a dict with "status" and "results").
\* lookup_acoustid returns [exc, value]: exc names the exception raised
\* ("" for none); a returned None is the empty list, which is never
\* returned as a list.
lookup_acoustid(reply) ==
    IF reply.kind = "webservice_error"
    THEN [exc |-> "FingerprintError", value |-> <<>>]
    ELSE IF reply.kind = "fingerprint_error"
    THEN [exc |-> "", value |-> <<>>]
    ELSE IF Get(reply.results, "status", "") /= "ok"
    THEN [exc |-> "", value |-> <<>>]
    ELSE [exc |-> "", value |-> Get(reply.results, "results", <<>>)]

MatchScore(m) == Get(m, "score", 0)

\* get_best_match: [found, match]
get_best_match(matches) ==
    IF Len(matches) = 0 THEN [found |-> FALSE, match |-> <<>>]
    ELSE LET best == matches[ArgMaxFirst([i \in 1..Len(matches) |-> MatchScore(matches[i])])]
         IN  IF MatchScore(best) < MinScore
             THEN [found |-> FALSE, match |-> <<>>]
             ELSE [found |-> TRUE, match |-> best]

\* extract_recording_id: the id of the first recording, or None
extract_recording_id(match) ==
    LET recordings == Get(match, "recordings", <<>>)
    IN  IF Len(recordings) = 0 THEN None ELSE Get(recordings[1], "id", None)

(* ----------------------------- metadata.py ---------------------------- *)

\* _MIN_REQUEST_INTERVAL = 1.0 second, in ticks
MIN_REQUEST_INTERVAL == 1 * TicksPerSecond

\* _rate_limit, line 25-26: how long it sleeps when `elapsed` ticks have
\* passed since the recorded time of the previous request
RateLimitSleep(elapsed) ==
    IF elapsed < MIN_REQUEST_INTERVAL THEN MIN_REQUEST_INTERVAL - elapsed ELSE 0

\* class TrackMetadata
TrackMetadata(title, artist, album_, album_artist, track_number, total_tracks, disc_number, year, recording_id, release_id) ==
    [title |-> title, artist |-> artist, album |-> album_,
     album_artist |-> album_artist, track_number |-> track_number,
     total_tracks |-> total_tracks, disc_number |-> disc_number,
     year |-> year, genre |-> None,
     musicbrainz_recording_id |-> recording_id,
     musicbrainz_release_id |-> release_id]

\* A credit is a dict (keys "artist", "joinphrase") or a plain str, which
\* the model wraps as a dict with the one key "str".
CreditNames(credit) ==
    IF "str" \in DOMAIN credit THEN <<credit["str"]>>
    ELSE LET name == Get(Get(credit, "artist", <<>>), "name", EmptyStr)
             joinphrase == Get(credit, "joinphrase", EmptyStr)
         IN  (IF Len(name) > 0 THEN <<name>> ELSE <<>>)
             \o (IF Len(joinphrase) > 0 THEN <<joinphrase>> ELSE <<>>)

RECURSIVE AllCreditNames(_)
AllCreditNames(artist_credit) ==
    IF Len(artist_credit) = 0 THEN <<>>
    ELSE CreditNames(artist_credit[1]) \o AllCreditNames(Tail(artist_credit))

\* _extract_artist_name
extract_artist_name(artist_credit) ==
    IF Len(artist_credit) = 0 THEN UnknownArtist
    ELSE LET names == AllCreditNames(artist_credit)
         IN  IF Len(names) > 0 THEN Strip(Join(names), Whitespace) ELSE UnknownArtist

\* The mutant of score_release: a compilation scores as any other release.
score_release_flat(release) ==
    LET status == Lower(Get(release, "status", EmptyStr))
        release_group == Get(release, "release-group", <<>>)
        primary_type == Lower(Get(release_group, "primary-type", EmptyStr))
    IN  (IF status = StrOfficial THEN 100 ELSE 0)
        + (IF primary_type = StrAlbum THEN 50
           ELSE IF primary_type = StrEP THEN 40
           ELSE IF primary_type = StrSingle THEN 30 ELSE 0)
        + 20

\* score_release, the key function of _select_best_release
score_release(release) ==
    LET status == Lower(Get(release, "status", EmptyStr))
        release_group == Get(release, "release-group", <<>>)
        primary_type == Lower(Get(release_group, "primary-type", EmptyStr))
        secondary_types == Get(release_group, "secondary-type-list", <<>>)
    IN  (IF status = StrOfficial THEN 100 ELSE 0)
        + (IF primary_type = StrAlbum THEN 50
           ELSE IF primary_type = StrEP THEN 40
           ELSE IF primary_type = StrSingle THEN 30 ELSE 0)
        + (IF ~InList(Compilation, secondary_types) THEN 20 ELSE 0)

\* best_release = max(releases, key=score_release)
best_release_index(releases) ==
    ArgMaxFirst([i \in 1..Len(releases) |-> score_release(releases[i])])

\* lines 181-184: the album artist, when the release credits one
AlbumArtistEntry(artist_credit) ==
    IF Len(artist_credit) > 0
    THEN ("album_artist" :> extract_artist_name(artist_credit)) ELSE <<>>

\* lines 186-192: the year, when date[:4] is an int
YearEntry(date) ==
    IF Len(date) >= 4 /\ ParseInt(Prefix(date, 4)).ok
    THEN ("year" :> SomeInt(ParseInt(Prefix(date, 4)).n)) ELSE <<>>

\* lines 194-201: the loop over the media leaves the last medium's
\* track count, and the last index when there are several media
MediumEntries(medium_list) ==
    (IF Len(medium_list) > 0
     THEN ("total_tracks" :>
            IF "track-count" \in DOMAIN medium_list[Len(medium_list)]
            THEN SomeInt(medium_list[Len(medium_list)]["track-count"]) ELSE NoneInt)
     ELSE <<>>)
    @@ (IF Len(medium_list) > 1 THEN ("disc_number" :> SomeInt(Len(medium_list)))
        ELSE <<>>)

\* lines 175-204: the result dict of the chosen release
ReleaseInfo(best_release) ==
    ("album" :> Get(best_release, "title", UnknownAlbum))
    @@ ("release_id" :> Get(best_release, "id", None))
    @@ AlbumArtistEntry(Get(best_release, "artist-credit", <<>>))
    @@ YearEntry(Get(best_release, "date", EmptyStr))
    @@ MediumEntries(Get(best_release, "medium-list", <<>>))

\* _select_best_release: the result dict, as a function of its keys
select_best_release(releases) ==
    IF Len(releases) = 0 THEN ("album" :> UnknownAlbum)
    ELSE ReleaseInfo(releases[best_release_index(releases)])

\* lines 82-114: the TrackMetadata of a recording and its release info
MetadataOf(recording_id, recording, release_info) ==
    TrackMetadata(
        Get(recording, "title", UnknownTitle),
        extract_artist_name(Get(recording, "artist-credit", <<>>)),
        Get(release_info, "album", UnknownAlbum),
        Get(release_info, "album_artist", None),
        Get(release_info, "track_number", NoneInt),
        Get(release_info, "total_tracks", NoneInt),
        Get(release_info, "disc_number", NoneInt),
        Get(release_info, "year", NoneInt),
        recording_id,
        Get(release_info, "release_id", None))

\* fetch_metadata_by_recording_id after _rate_limit.  The reply of
\* get_recording_by_id is [kind |-> "webservice_error"] or
\* [kind |-> "response", result |-> the decoded dict].  Returns
\* [found, metadata]; found is FALSE for a returned None.
fetch_metadata_by_recording_id(recording_id, reply) ==
    IF reply.kind = "webservice_error" THEN [found |-> FALSE, metadata |-> <<>>]
    ELSE [found |-> TRUE,
          metadata |-> MetadataOf(recording_id, Get(reply.result, "recording", <<>>),
                          select_best_release(Get(Get(reply.result, "recording", <<>>),
                                                  "release-list", <<>>)))]

\* the tracks of one medium, as fetch_release_tracks lists them; a track
\* whose position int() rejects makes the whole call raise ValueError
MediumTracks(medium) ==
    LET track_list == Get(medium, "track-list", <<>>)
    IN  [i \in 1..Len(track_list) |->
            LET recording == Get(track_list[i], "recording", <<>>)
                position == Get(track_list[i], "position", <<"0">>)
            IN  [recording_id |-> Get(recording, "id", None),
                 title |-> Get(recording, "title", None),
                 position_ok |-> ParseInt(position).ok,
                 track_number |-> ParseInt(position).n,
                 disc_number |-> Get(medium, "position", 1)]]

RECURSIVE AllMediumTracks(_)
AllMediumTracks(medium_list) ==
    IF Len(medium_list) = 0 THEN <<>>
    ELSE MediumTracks(medium_list[1]) \o AllMediumTracks(Tail(medium_list))

\* lines 220-235: the listed tracks, or the ValueError of int(position)
TracksOrRaise(tracks) ==
    IF \E i \in 1..Len(tracks) : ~tracks[i].position_ok
    THEN [exc |-> "ValueError", found |-> FALSE, tracks |-> <<>>]
    ELSE [exc |-> "", found |-> TRUE, tracks |-> tracks]

\* fetch_release_tracks after _rate_limit: [exc, found, tracks]; exc is
\* "ValueError" when int(track position) raises, found is FALSE for None
fetch_release_tracks(reply) ==
    IF reply.kind = "webservice_error"
    THEN [exc |-> "", found |-> FALSE, tracks |-> <<>>]
    ELSE TracksOrRaise(AllMediumTracks(
            Get(Get(reply.result, "release", <<>>), "medium-list", <<>>)))

\* find_track_number returns None, or raises exc
NoTrackInfo(exc) ==
    [exc |-> exc, found |-> FALSE, track_number |-> NoneInt,
     total_tracks |-> NoneInt, disc_number |-> NoneInt]

\* lines 253-259: the tuple returned for the track found
TrackInfo(tracks, track) ==
    [exc |-> "", found |-> TRUE,
     track_number |-> SomeInt(track.track_number),
     total_tracks |-> SomeInt(Cardinality({i \in 1..Len(tracks) :
                        tracks[i].disc_number = track.disc_number})),
     disc_number |-> SomeInt(track.disc_number)]

\* lines 251-261: the first track of the listing with the recording id
FirstTrackOf(recording_id, tracks) ==
    IF \E i \in 1..Len(tracks) : tracks[i].recording_id = recording_id
    THEN TrackInfo(tracks, tracks[CHOOSE i \in 1..Len(tracks) :
            /\ tracks[i].recording_id = recording_id
            /\ \A j \in 1..(i - 1) : tracks[j].recording_id /= recording_id])
    ELSE NoTrackInfo("")

\* lines 247-261, `fetched` being the outcome of fetch_release_tracks
FindTrackIn(recording_id, fetched) ==
    IF fetched.exc /= "" \/ ~fetched.found \/ Len(fetched.tracks) = 0
    THEN NoTrackInfo(fetched.exc)
    ELSE FirstTrackOf(recording_id, fetched.tracks)

\* find_track_number: [exc, found, track_number, total_tracks, disc_number]
find_track_number(recording_id, reply) ==
    FindTrackIn(recording_id, fetch_release_tracks(reply))

(* ------------------------------ tagger.py ----------------------------- *)

\* A file on disk is [id, valid, writable, frames]: id names its audio
\* content, valid says that MP3(path) can open it, writable that
\* audio.save() can write it, and frames is its tag store, a function from
\* ID3 frame ids to the frame's text[0].  audio.tags None and an empty ID3
\* are both the empty function: update_tags and read_current_tags treat
\* them alike (lines 48 and 99).
TXXX_RECORDING == "TXXX:MusicBrainz Recording Id"
TXXX_RELEASE   == "TXXX:MusicBrainz Release Id"

\* a value stored under the key "year": an int, a str, or no value
YearInt(n)  == [kind |-> "int", n |-> n, s |-> EmptyStr]
YearStr(s)  == [kind |-> "str", n |-> 0, s |-> s]
YearNone    == [kind |-> "none", n |-> 0, s |-> EmptyStr]

\* lines 66-73 for the key "year": int(str(value)[:4]), the str on ValueError
YearOfText(value) ==
    IF Len(value) > 0 /\ ParseInt(Prefix(value, 4)).ok
    THEN YearInt(ParseInt(Prefix(value, 4)).n)
    ELSE YearStr(value)

\* The mutant of ReadYear: TYER is read after TDRC and overrides it.
ReadYearTyerLast(frames) ==
    IF "TYER" \in DOMAIN frames THEN ("year" :> YearOfText(frames["TYER"]))
    ELSE IF "TDRC" \in DOMAIN frames THEN ("year" :> YearOfText(frames["TDRC"]))
    ELSE <<>>

\* tag_mapping lists TYER before TDRC, both under "year": TDRC, read last,
\* overrides TYER
ReadYear(frames) ==
    IF "TDRC" \in DOMAIN frames THEN ("year" :> YearOfText(frames["TDRC"]))
    ELSE IF "TYER" \in DOMAIN frames THEN ("year" :> YearOfText(frames["TYER"]))
    ELSE <<>>

ReadText(frames, tag_id, key) ==
    IF tag_id \in DOMAIN frames THEN (key :> frames[tag_id]) ELSE <<>>

\* read_current_tags of a file MP3() can open: the dict of current tags
read_current_tags(frames) ==
    ReadText(frames, "TIT2", "title") @@ ReadText(frames, "TPE1", "artist")
    @@ ReadText(frames, "TPE2", "album_artist") @@ ReadText(frames, "TALB", "album")
    @@ ReadText(frames, "TRCK", "track") @@ ReadText(frames, "TPOS", "disc")
    @@ ReadYear(frames) @@ ReadText(frames, "TCON", "genre")

\* f"{track_number}/{total_tracks}" or str(track_number), lines 136-138
track_str(metadata) ==
    IF TruthyInt(metadata.total_tracks)
    THEN IntToStr(IntOf(metadata.track_number)) \o <<"/">>
         \o IntToStr(IntOf(metadata.total_tracks))
    ELSE IntToStr(IntOf(metadata.track_number))

\* one diffed text field: the entry of `changes` and the frame to set
DiffText(old_tags, key, present, new) ==
    IF present /\ Get(old_tags, key, EmptyStr) /= new
    THEN (key :> [old |-> Get(old_tags, key, EmptyStr), new |-> new])
    ELSE <<>>

\* lines 103-164: the change set of update_tags
TagChanges(old_tags, metadata) ==
    DiffText(old_tags, "title", TruthyStr(metadata.title), metadata.title)
    @@ DiffText(old_tags, "artist", TruthyStr(metadata.artist), metadata.artist)
    @@ DiffText(old_tags, "album_artist", TruthyStr(metadata.album_artist),
                metadata.album_artist)
    @@ DiffText(old_tags, "album", TruthyStr(metadata.album), metadata.album)
    @@ DiffText(old_tags, "track", TruthyInt(metadata.track_number), track_str(metadata))
    @@ DiffText(old_tags, "disc", TruthyInt(metadata.disc_number),
                IntToStr(IntOf(metadata.disc_number)))
    @@ (IF TruthyInt(metadata.year)
           /\ Get(old_tags, "year", YearNone) /= YearInt(IntOf(metadata.year))
        THEN ("year" :> [old |-> Get(old_tags, "year", YearNone),
                         new |-> YearInt(IntOf(metadata.year))])
        ELSE <<>>)
    @@ DiffText(old_tags, "genre", TruthyStr(metadata.genre), metadata.genre)

\* the frame each key of `changes` is written to
FrameOfKey(key) ==
    CASE key = "title" -> "TIT2" [] key = "artist" -> "TPE1"
      [] key = "album_artist" -> "TPE2" [] key = "album" -> "TALB"
      [] key = "track" -> "TRCK" [] key = "disc" -> "TPOS"
      [] key = "year" -> "TDRC" [] key = "genre" -> "TCON"

\* the text a change writes: str(metadata.year) for the year
ChangeText(key, change) ==
    IF key = "year" THEN IntToStr(change.new.n) ELSE change.new

\* `tags` as lines 106-179 leave it, before any save
NewFrames(frames, changes, metadata) ==
    LET changed == {FrameOfKey(k) : k \in DOMAIN changes}
        key_of(f) == CHOOSE k \in DOMAIN changes : FrameOfKey(k) = f
        ids == (IF TruthyStr(metadata.musicbrainz_recording_id)
                THEN (TXXX_RECORDING :> metadata.musicbrainz_recording_id) ELSE <<>>)
               @@ (IF TruthyStr(metadata.musicbrainz_release_id)
                   THEN (TXXX_RELEASE :> metadata.musicbrainz_release_id) ELSE <<>>)
    IN  ids @@ [f \in changed |-> ChangeText(key_of(f), changes[key_of(f)])] @@ frames

\* line 182: `if changes and not dry_run`
SavesTags(changes, dry_run) == DOMAIN changes /= {} /\ ~dry_run

\* lines 181-186: the save, which raises on a file that cannot be written
SaveTags(file, metadata, dry_run, changes) ==
    IF ~SavesTags(changes, dry_run)
    THEN [exc |-> "", changes |-> changes, saved |-> FALSE, frames |-> file.frames]
    ELSE IF ~file.writable
    THEN [exc |-> "OSError", changes |-> <<>>, saved |-> FALSE, frames |-> file.frames]
    ELSE [exc |-> "", changes |-> changes, saved |-> TRUE,
          frames |-> NewFrames(file.frames, changes, metadata)]

\* update_tags(file, metadata, dry_run): [exc, changes, saved, frames], frames
\* being the file's tag store when the call returns or raises
update_tags(file, metadata, dry_run) ==
    IF ~file.valid
    THEN [exc |-> "TaggerError", changes |-> <<>>, saved |-> FALSE, frames |-> file.frames]
    ELSE SaveTags(file, metadata, dry_run,
                  TagChanges(read_current_tags(file.frames), metadata))

(* ----------------------------- organizer.py --------------------------- *)

\* INVALID_CHARS = r'[<>:"/\\|?*]'
INVALID_CHARS == {"<", ">", ":", "\"", "/", "\\", "|", "?", "*"}

\* the byte limit of sanitize_filename
MAX_NAME_BYTES == 200

\* len(c.encode("utf-8")) of the characters the model uses; a character
\* outside ASCII is written as its code point
Utf8Len(c) == CASE c = "U+00E9" -> 2 [] c = "U+D55C" -> 3 [] OTHER -> 1

\* len(s.encode("utf-8")): the sum over the two halves of s
RECURSIVE Utf8Bytes(_)
Utf8Bytes(s) ==
    IF Len(s) = 0 THEN 0
    ELSE IF Len(s) = 1 THEN Utf8Len(s[1])
    ELSE Utf8Bytes(SubSeq(s, 1, Len(s) \div 2))
         + Utf8Bytes(SubSeq(s, Len(s) \div 2 + 1, Len(s)))

\* the places of s that re.sub(r"\s+", " ", s) keeps: the characters that
\* are not white space, and the first of every run of white space
CollapsedPlaces(s) ==
    SelectSeq([i \in 1..Len(s) |-> i],
              LAMBDA i : s[i] \notin Whitespace \/ i = 1 \/ s[i - 1] \notin Whitespace)

\* s at the given places, a white-space character replaced by a space
SpacedAt(s, places) ==
    [k \in 1..Len(places) |-> IF s[places[k]] \in Whitespace THEN " " ELSE s[places[k]]]

\* re.sub(r"\s+", " ", s)
CollapseWhitespace(s) == SpacedAt(s, CollapsedPlaces(s))

\* lines 46-47: drop characters from the end while the name is too long
RECURSIVE TruncateBytes(_)
TruncateBytes(s) ==
    IF Utf8Bytes(s) > MAX_NAME_BYTES THEN TruncateBytes(SubSeq(s, 1, Len(s) - 1)) ELSE s

\* lines 45-48: a name longer than the limit is cut and stripped
TruncateName(sanitized) ==
    IF Utf8Bytes(sanitized) > MAX_NAME_BYTES
    THEN Strip(TruncateBytes(sanitized), Whitespace)
    ELSE sanitized

\* line 50: `sanitized or "Unknown"`
OrUnknown(sanitized) == IF Len(sanitized) > 0 THEN sanitized ELSE Unknown

\* sanitize_filename
sanitize_filename(name) ==
    IF ~TruthyStr(name) THEN Unknown
    ELSE OrUnknown(TruncateName(CollapseWhitespace(
            Strip(RemoveChars(name, INVALID_CHARS), {" ", "."}))))

\* A format template is a sequence of tokens: [lit |-> text] for literal
\* text, [field, spec, attr] for a replacement field "{field.attr:spec}"
\* (field "" is a positional field "{}"), [bad |-> TRUE] for text that
\* str.format cannot parse.  A template value is [isint, n, s].
IntValue(n) == [isint |-> TRUE, n |-> n, s |-> EmptyStr]
StrValue(s) == [isint |-> FALSE, n |-> 0, s |-> s]

\* one token of template.format(**variables): [exc, text]
FormatToken(token, variables) ==
    IF "lit" \in DOMAIN token THEN [exc |-> "", text |-> token.lit]
    ELSE IF "bad" \in DOMAIN token THEN [exc |-> "ValueError", text |-> EmptyStr]
    ELSE IF token.field = "" THEN [exc |-> "IndexError", text |-> EmptyStr]
    ELSE IF token.field \notin DOMAIN variables THEN [exc |-> "KeyError", text |-> EmptyStr]
    ELSE IF token.attr /= "" THEN [exc |-> "AttributeError", text |-> EmptyStr]
    ELSE LET value == variables[token.field]
         IN  IF token.spec = "02d"
             THEN IF value.isint THEN [exc |-> "", text |-> ZeroPad2(value.n)]
                  ELSE [exc |-> "ValueError", text |-> EmptyStr]
             ELSE [exc |-> "", text |-> IF value.isint THEN IntToStr(value.n) ELSE value.s]

\* a formatted token followed by the formatted rest: the first failure wins
FormatThen(head, rest) ==
    IF head.exc /= "" THEN head
    ELSE IF rest.exc /= "" THEN rest
    ELSE [exc |-> "", text |-> head.text \o rest.text]

\* template.format(**variables): the first failing field raises
RECURSIVE Format(_, _)
Format(template, variables) ==
    IF Len(template) = 0 THEN [exc |-> "", text |-> EmptyStr]
    ELSE FormatThen(FormatToken(template[1], variables), Format(Tail(template), variables))

\* the parts of a str path between "/", without empty and "." parts
RECURSIVE SplitParts(_, _)
SplitParts(s, cur) ==
    LET done == IF Len(cur) = 0 \/ cur = <<".">> THEN <<>> ELSE <<cur>>
    IN  IF Len(s) = 0 THEN done
        ELSE IF s[1] = "/" THEN done \o SplitParts(Tail(s), <<>>)
        ELSE SplitParts(Tail(s), cur \o <<s[1]>>)

\* the component that stands for the filesystem root in an absolute path
RootDir == <<"/">>

\* base / s, for a path base and a str s
PathJoin(base, s) ==
    IF Len(s) > 0 /\ s[1] = "/" THEN <<RootDir>> \o SplitParts(s, <<>>)
    ELSE base \o SplitParts(s, <<>>)

Parent(p) == IF Len(p) = 0 THEN p ELSE SubSeq(p, 1, Len(p) - 1)
Name(p) == IF Len(p) = 0 THEN EmptyStr ELSE p[Len(p)]

\* index of the last "." of a name, 0 if none
LastDot(name) ==
    IF \E i \in 1..Len(name) : name[i] = "."
    THEN CHOOSE i \in 1..Len(name) :
            name[i] = "." /\ \A j \in (i + 1)..Len(name) : name[j] /= "."
    ELSE 0

\* PurePath.suffix and PurePath.stem
Suffix(name) == LET i == LastDot(name)
                IN  IF 1 < i /\ i < Len(name) THEN SubSeq(name, i, Len(name)) ELSE EmptyStr
Stem(name) == LET i == LastDot(name)
              IN  IF 1 < i /\ i < Len(name) THEN SubSeq(name, 1, i - 1) ELSE name

\* lines 68-73: the variables of the folder template
FolderVariables(metadata) ==
    [artist |-> StrValue(sanitize_filename(metadata.artist)),
     album |-> StrValue(sanitize_filename(metadata.album)),
     album_artist |-> StrValue(sanitize_filename(
         IF TruthyStr(metadata.album_artist) THEN metadata.album_artist
         ELSE metadata.artist)),
     year |-> StrValue(IF TruthyInt(metadata.year) THEN IntToStr(IntOf(metadata.year))
                       ELSE UnknownYear)]

\* lines 76-81: KeyError becomes OrganizerError, any other exception passes
FolderOf(base_path, formatted) ==
    IF formatted.exc = "KeyError" THEN [exc |-> "OrganizerError", path |-> <<>>]
    ELSE IF formatted.exc /= "" THEN [exc |-> formatted.exc, path |-> <<>>]
    ELSE [exc |-> "", path |-> PathJoin(base_path, formatted.text)]

\* build_folder_path: [exc, path]
build_folder_path(base_path, metadata, template) ==
    FolderOf(base_path, Format(template, FolderVariables(metadata)))

\* line 98: `metadata.track_number or 0`
TrackNum(metadata) ==
    IF TruthyInt(metadata.track_number) THEN IntOf(metadata.track_number) ELSE 0

\* lines 100-105: the variables of the filename template
FilenameVariables(metadata) ==
    [track |-> IntValue(TrackNum(metadata)),
     title |-> StrValue(sanitize_filename(metadata.title)),
     artist |-> StrValue(sanitize_filename(metadata.artist)),
     album |-> StrValue(sanitize_filename(metadata.album))]

\* lines 113-116: the name used when the template fails
FallbackName(track_num, title) ==
    IF track_num /= 0 THEN ZeroPad2(track_num) \o <<" ", "-", " ">> \o title ELSE title

\* lines 108-118: KeyError and ValueError fall back, any other exception passes
FilenameOf(metadata, formatted) ==
    IF formatted.exc \in {"KeyError", "ValueError"}
    THEN [exc |-> "",
          name |-> FallbackName(TrackNum(metadata), sanitize_filename(metadata.title))
                   \o DotMp3]
    ELSE IF formatted.exc /= "" THEN [exc |-> formatted.exc, name |-> EmptyStr]
    ELSE [exc |-> "", name |-> formatted.text \o DotMp3]

\* build_filename: [exc, name]
build_filename(metadata, template) ==
    FilenameOf(metadata, Format(template, FilenameVariables(metadata)))

\* line 141: folder_path / filename
NewPathOf(folder, filename) ==
    IF folder.exc /= "" THEN [exc |-> folder.exc, path |-> <<>>]
    ELSE IF filename.exc /= "" THEN [exc |-> filename.exc, path |-> <<>>]
    ELSE [exc |-> "", path |-> PathJoin(folder.path, filename.name)]

\* get_new_path: [exc, path]
get_new_path(base_path, metadata, folder_template, filename_template) ==
    NewPathOf(build_folder_path(base_path, metadata, folder_template),
              build_filename(metadata, filename_template))

(* The file tree is (fs, dirs): fs maps the path of every regular file to  *)
(* the file, dirs is the set of directories.  The working directory is the *)
(* empty path.                                                             *)

\* no path: the None of Optional[Path]
NoPath == <<None>>

Exists(fs, dirs, p) == p \in DOMAIN fs \/ p \in dirs

\* the non-empty prefixes of a path: the directory and its ancestors
Ancestors(d) == {SubSeq(d, 1, k) : k \in 1..Len(d)}

\* d.mkdir(parents=True, exist_ok=True): [exc, dirs]
Mkdir(fs, dirs, d) ==
    IF \E a \in Ancestors(d) : a \in DOMAIN fs
    THEN [exc |-> "OSError", dirs |-> dirs]
    ELSE [exc |-> "", dirs |-> dirs \cup Ancestors(d)]

\* fs with the file `file` at path p
WithFile(fs, p, file) ==
    [q \in DOMAIN fs \cup {p} |-> IF q = p THEN file ELSE fs[q]]

\* fs without path p
WithoutFile(fs, p) == [q \in DOMAIN fs \ {p} |-> fs[q]]

\* any(folder.iterdir()) is false
IsEmptyDir(fs, dirs, folder) ==
    /\ \A p \in DOMAIN fs : Parent(p) /= folder
    /\ \A d \in dirs : d = <<>> \/ Parent(d) /= folder \/ d = folder

\* _cleanup_empty_folders: removes the folder and its ancestors while they
\* exist and are empty; rmdir of the working directory fails, which ends it
RECURSIVE cleanup_empty_folders(_, _, _)
cleanup_empty_folders(fs, dirs, folder) ==
    IF folder /= <<>> /\ folder \in dirs /\ IsEmptyDir(fs, dirs, folder)
    THEN cleanup_empty_folders(fs, dirs \ {folder}, Parent(folder))
    ELSE dirs

\* parent / f"{stem} ({counter}){suffix}"
NumberedPath(path, counter) ==
    Parent(path) \o <<Stem(Name(path)) \o <<" ", "(">> \o IntToStr(counter) \o <<")">>
                      \o Suffix(Name(path))>>

\* The mutant of handle_duplicate: the existing destination is kept as the
\* target, so the move overwrites it.
handle_duplicate_overwrite(fs, dirs, path) == path

\* _handle_duplicate: the first numbered path that does not exist
handle_duplicate(fs, dirs, path) ==
    IF ~Exists(fs, dirs, path) THEN path
    ELSE LET free(k) == ~Exists(fs, dirs, NumberedPath(path, k))
             \* at most |fs| + |dirs| numbered paths can exist
             counter == CHOOSE k \in 1..(Cardinality(DOMAIN fs) + Cardinality(dirs) + 1) :
                            free(k) /\ \A j \in 1..(k - 1) : ~free(j)
         IN  NumberedPath(path, counter)

\* the result dict of move_file
MoveResult(source, destination, moved, backed_up, skipped, backup_location) ==
    [source |-> source, destination |-> destination, moved |-> moved,
     backed_up |-> backed_up, skipped |-> skipped, backup_location |-> backup_location]

\* The mutant of MovesFiles: dry_run is ignored.
MovesFilesAlways(dry_run) == TRUE

\* line 174: `if not dry_run`
MovesFiles(dry_run) == ~dry_run

\* move_file raises exc with the file tree as (fs, dirs)
MoveRaises(exc, fs, dirs, source, destination) ==
    [exc |-> exc, fs |-> fs, dirs |-> dirs,
     result |-> MoveResult(source, destination, FALSE, FALSE, FALSE, NoPath)]

\* lines 195-198: the move is done; the emptied folders are removed
MoveDone(fs, dirs, source, target, backed_up, backup_location) ==
    [exc |-> "", fs |-> fs,
     dirs |-> cleanup_empty_folders(fs, dirs, Parent(source)),
     result |-> MoveResult(source, target, TRUE, backed_up, FALSE, backup_location)]

\* lines 191-193: shutil.move(source, target)
MoveRename(fs, dirs, source, target, backed_up, backup_location) ==
    IF source \notin DOMAIN fs
    THEN MoveRaises("FileNotFoundError", fs, dirs, source, target)
    ELSE MoveDone(WithFile(WithoutFile(fs, source), target, fs[source]), dirs,
                  source, target, backed_up, backup_location)

\* where shutil.copy2(source, backup_file) writes: into backup_file when
\* that is a directory
BackupTarget(dirs, backup_file, source) ==
    IF backup_file \in dirs THEN backup_file \o <<Name(source)>> ELSE backup_file

\* lines 185-189, `made` being the outcome of backup_path.mkdir
BackupCopy(fs, source, target, backup_file, made) ==
    IF made.exc /= "" THEN MoveRaises(made.exc, fs, made.dirs, source, target)
    ELSE IF source \notin DOMAIN fs
    THEN MoveRaises("FileNotFoundError", fs, made.dirs, source, target)
    ELSE IF BackupTarget(made.dirs, backup_file, source) = source
    THEN MoveRaises("SameFileError", fs, made.dirs, source, target)
    ELSE MoveRename(WithFile(fs, BackupTarget(made.dirs, backup_file, source), fs[source]),
                    made.dirs, source, target, TRUE, backup_file)

\* lines 183-193: the backup, if a backup root is given, then the move
MoveWithBackup(fs, dirs, source, target, backup_path) ==
    IF backup_path = NoPath
    THEN MoveRename(fs, dirs, source, target, FALSE, NoPath)
    ELSE BackupCopy(fs, source, target, backup_path \o <<Name(source)>>,
                    Mkdir(fs, dirs, backup_path))

\* lines 178-181: the destination, or its first free numbered name
ResolveTarget(fs, dirs, destination) ==
    IF Exists(fs, dirs, destination) THEN handle_duplicate(fs, dirs, destination)
    ELSE destination

\* lines 175-193, `made` being the outcome of destination.parent.mkdir
MoveInto(fs, source, destination, backup_path, made) ==
    IF made.exc /= "" THEN MoveRaises(made.exc, fs, made.dirs, source, destination)
    ELSE MoveWithBackup(fs, made.dirs, source,
                        ResolveTarget(fs, made.dirs, destination), backup_path)

\* move_file: [exc, result, fs, dirs], fs and dirs being the file tree when
\* the call returns or raises
move_file(fs, dirs, source, destination, dry_run, backup_path) ==
    IF source = destination
    THEN [exc |-> "", fs |-> fs, dirs |-> dirs,
          result |-> MoveResult(source, destination, FALSE, FALSE, TRUE, NoPath)]
    ELSE IF ~MovesFiles(dry_run)
    THEN [exc |-> "", fs |-> fs, dirs |-> dirs,
          result |-> MoveResult(source, destination, FALSE, FALSE, FALSE, NoPath)]
    ELSE MoveInto(fs, source, destination, backup_path,
                  Mkdir(fs, dirs, Parent(destination)))

\* line 252: move_file to the new path, unless get_new_path raised
OrganizeTo(fs, dirs, file_path, new_path, dry_run, backup_path) ==
    IF new_path.exc /= ""
    THEN MoveRaises(new_path.exc, fs, dirs, file_path, <<>>)
    ELSE move_file(fs, dirs, file_path, new_path.path, dry_run, backup_path)

\* organize_file: [exc, result, fs, dirs]
organize_file(fs, dirs, file_path, metadata, output_path, folder_template, filename_template, dry_run, backup_path) ==
    OrganizeTo(fs, dirs, file_path,
               get_new_path(output_path, metadata, folder_template, filename_template),
               dry_run, backup_path)

\* file_path.relative_to(source_base_path), the file's name on ValueError
RelativeTo(file_path, base) ==
    IF Len(base) <= Len(file_path) /\ SubSeq(file_path, 1, Len(base)) = base
    THEN SubSeq(file_path, Len(base) + 1, Len(file_path))
    ELSE <<Name(file_path)>>

\* line 285: output_path / unmatched_folder / relative_path
UnmatchedPath(file, source_base_path, output_path, unmatched_folder) ==
    output_path \o <<unmatched_folder>> \o RelativeTo(file, source_base_path)

\* move_to_unmatched: [exc, result, fs, dirs]
move_to_unmatched(fs, dirs, file_path, source_base_path, output_path, unmatched_folder, dry_run) ==
    move_file(fs, dirs, file_path,
              UnmatchedPath(file_path, source_base_path, output_path, unmatched_folder),
              dry_run, NoPath)

(* ------------------------------ scanner.py ---------------------------- *)

StrUnmatched == <<"_","u","n","m","a","t","c","h","e","d">>
StrBackup    == <<".","b","a","c","k","u","p">>

\* EXCLUDE_FOLDERS
EXCLUDE_FOLDERS == {StrUnmatched, StrBackup}

\* _should_exclude
should_exclude(file_path) == \E i \in 1..Len(file_path) : file_path[i] \in EXCLUDE_FOLDERS

IsUnder(p, root) == Len(p) > Len(root) /\ SubSeq(p, 1, Len(root)) = root

\* fnmatch of the pattern "*<ext>" on a name, letter case kept
EndsWith(name, ext) ==
    Len(name) >= Len(ext) /\ SubSeq(name, Len(name) - Len(ext) + 1, Len(name)) = ext

\* the pattern of rglob in the first and in the second loop
PassPattern(pass) == IF pass = 1 THEN DotMp3 ELSE <<".", "M", "P", "3">>

\* os.scandir(d): the entries of a directory
Children(fs, dirs, d) == {p \in DOMAIN fs \cup dirs : Len(p) = Len(d) + 1 /\ Parent(p) = d}

\* The generator object of scan_mp3_files. pass 0: no statement has run
\* yet; 1 and 2: the loop over rglob("*.mp3"), over rglob("*.MP3"); 3:
\* finished. stack holds the directories rglob is inside, the last one the
\* one it is at: "new" before its entries are read, "files" while the
\* matching entries read from it (files) are gone through, "dirs" while
\* the subdirectories read from it afterwards (subdirs) are gone into.
NewScan == [pass |-> 0, seen |-> {}, files |-> {}, stack |-> <<>>, exc |-> ""]

ScanFrame(d) == [dir |-> d, stage |-> "new", subdirs |-> {}]

\* the outcomes of next() on the generator
ScanYields(gen, path) == [kind |-> "yield", path |-> path, gen |-> gen]
ScanStops(gen) == [kind |-> "stop", path |-> NoPath, gen |-> [gen EXCEPT !.pass = 3]]
ScanRaises(gen, exc) ==
    [kind |-> "raise", path |-> NoPath, gen |-> [gen EXCEPT !.pass = 3, !.exc = exc]]

\* the generator with the last directory of its stack changed
WithTop(gen, frame) == [gen EXCEPT !.stack[Len(gen.stack)] = frame]

\* lines 42-44 and 49-51: the entry is yielded
Yielded(fs, gen, p) == p \in DOMAIN fs /\ ~should_exclude(p) /\ p \notin gen.seen

\* rglob walks the directory d and everything below it and the loop yields
\* nothing: no entry matching the pattern is yielded
RECURSIVE WalkedInSilence(_, _, _, _)
WalkedInSilence(fs, dirs, gen, d) ==
    /\ d \in dirs
    /\ \A p \in Children(fs, dirs, d) :
          /\ EndsWith(Name(p), PassPattern(gen.pass)) => ~Yielded(fs, gen, p)
          /\ p \in dirs => WalkedInSilence(fs, dirs, gen, p)

\* scan_mp3_files resumed on the tree (fs, dirs): every outcome next() can
\* have, a directory listing its entries in any order. rglob reads a
\* directory when it comes to it, its matching entries first and its
\* subdirectories after those were yielded, and fails on a directory that
\* is no longer there. The entries gone through before the one that is
\* yielded, and the directories walked before the one in which something
\* is yielded or fails, are any of those that yield nothing.
RECURSIVE scan_mp3_files(_, _, _, _)
scan_mp3_files(gen, fs, dirs, source) ==
    LET top == gen.stack[Len(gen.stack)]
        skipped == {f \in gen.files : ~Yielded(fs, gen, f)}
        silent == {d \in top.subdirs : WalkedInSilence(fs, dirs, gen, d)}
    IN  IF gen.pass = 0
        THEN \* lines 33-37
             IF ~Exists(fs, dirs, source) THEN {ScanRaises(gen, "FileNotFoundError")}
             ELSE IF source \notin dirs THEN {ScanRaises(gen, "NotADirectoryError")}
             ELSE scan_mp3_files([gen EXCEPT !.pass = 1, !.stack = <<ScanFrame(source)>>],
                                 fs, dirs, source)
        ELSE IF gen.pass = 3 THEN {ScanStops(gen)}
        ELSE IF Len(gen.stack) = 0
        THEN \* a loop is over: lines 47-52 follow lines 41-45
             IF gen.pass = 1
             THEN scan_mp3_files([gen EXCEPT !.pass = 2, !.stack = <<ScanFrame(source)>>],
                                 fs, dirs, source)
             ELSE {ScanStops(gen)}
        ELSE IF top.stage = "new"
        THEN IF top.dir \notin dirs THEN {ScanRaises(gen, "FileNotFoundError")}
             ELSE scan_mp3_files(
                    [WithTop(gen, [top EXCEPT !.stage = "files"]) EXCEPT
                        !.files = {p \in Children(fs, dirs, top.dir) :
                                      EndsWith(Name(p), PassPattern(gen.pass))}],
                    fs, dirs, source)
        ELSE IF top.stage = "files" /\ gen.files /= skipped
        THEN { ScanYields([gen EXCEPT !.files = @ \ (before \cup {f}),
                                      !.seen = @ \cup {f}], f)
               : before \in SUBSET skipped, f \in gen.files \ skipped }
        ELSE IF top.stage = "files"
        THEN IF top.dir \notin dirs THEN {ScanRaises(gen, "FileNotFoundError")}
             ELSE scan_mp3_files(
                    [WithTop(gen, [top EXCEPT !.stage = "dirs",
                                              !.subdirs = Children(fs, dirs, top.dir) \cap dirs])
                     EXCEPT !.files = {}],
                    fs, dirs, source)
        ELSE IF top.subdirs /= silent
        THEN UNION { scan_mp3_files(
                        [WithTop(gen, [top EXCEPT !.subdirs = @ \ (before \cup {d})]) EXCEPT
                            !.stack = Append(@, ScanFrame(d))],
                        fs, dirs, source)
                     : before \in SUBSET silent, d \in top.subdirs \ silent }
        ELSE scan_mp3_files([gen EXCEPT !.stack = SubSeq(@, 1, Len(@) - 1)],
                            fs, dirs, source)

(* ------------------------- the inputs of a run ------------------------ *)

Src == << <<"i","n">> >>
Out == << <<"o","u","t">> >>

FileA == Src \o << <<"a",".","m","p","3">> >>
FileB == Src \o << <<"s","u","b">>, <<"b",".","m","p","3">> >>
FileX == Src \o << StrUnmatched, <<"x",".","m","p","3">> >>

\* identifiers of the catalog
Rec1 == <<"r","1">>
Rec2 == <<"r","2">>
Rel1 == <<"l","1">>

StrT == <<"T","?">>
StrArtist == <<"A">>
StrL == <<"L">>

Field(name, spec) == [field |-> name, spec |-> spec, attr |-> ""]

\* "{artist}/{album}" and "{track:02d} - {title}", the defaults of main.py
DefaultFolderTemplate == <<Field("artist", ""), [lit |-> <<"/">>], Field("album", "")>>
DefaultFilenameTemplate == <<Field("track", "02d"), [lit |-> <<" ", "-", " ">>],
                             Field("title", "")>>
\* "{genre}": a placeholder build_folder_path does not define
BadFolderTemplate == <<Field("genre", "")>>

\* the replies of the match service (acoustid.match)
Recording(id) == [id |-> id]
MatchReplies ==
    { [kind |-> "fingerprint_error"],
      [kind |-> "webservice_error"],
      [kind |-> "response", results |-> [status |-> "error"]],
      [kind |-> "response", results |-> [status |-> "ok", results |-> <<>>]],
      [kind |-> "response", results |-> [status |-> "ok", results |->
            <<[score |-> 30, recordings |-> <<Recording(Rec1)>>]>>]],
      [kind |-> "response", results |-> [status |-> "ok", results |->
            <<[score |-> 90, recordings |-> <<>>]>>]],
      [kind |-> "response", results |-> [status |-> "ok", results |->
            <<[score |-> 40, recordings |-> <<Recording(Rec2)>>],
              [score |-> 90, recordings |-> <<Recording(Rec1)>>]>>]] }

\* the replies of the metadata service to get_recording_by_id
FullRelease ==
    ("id" :> Rel1) @@ ("title" :> StrL) @@ ("status" :> <<"O","f","f","i","c","i","a","l">>)
    @@ ("release-group" :> ("primary-type" :> <<"A","l","b","u","m">>))
    @@ ("date" :> <<"1","9","9","9","-","0","1">>)
    @@ ("medium-list" :> << ("track-count" :> 2) >>)
\* the same release in a catalog that has no date for it, as "0000"
UndatedRelease == ("date" :> <<"0","0","0","0">>) @@ FullRelease
ArtistCredit == << ("artist" :> [name |-> StrArtist]) >>
RecordingReplies ==
    { [kind |-> "webservice_error"],
      [kind |-> "response", result |-> ("recording" :>
            (("title" :> StrT) @@ ("artist-credit" :> ArtistCredit)
             @@ ("release-list" :> <<UndatedRelease>>)))],
      [kind |-> "response", result |-> ("recording" :>
            (("title" :> StrT) @@ ("artist-credit" :> ArtistCredit)
             @@ ("release-list" :> <<FullRelease>>)))],
      [kind |-> "response", result |-> ("recording" :>
            (("title" :> StrT) @@ ("artist-credit" :> ArtistCredit)))] }

\* the replies of the metadata service to get_release_by_id
Track(position, recording_id) ==
    [position |-> position, recording |-> [id |-> recording_id, title |-> StrT]]
ReleaseOf(tracks) ==
    [kind |-> "response", result |-> ("release" :>
        ("medium-list" :> << ("position" :> 1) @@ ("track-list" :> tracks) >>))]
ReleaseReplies ==
    { [kind |-> "webservice_error"],
      ReleaseOf(<<Track(<<"1">>, Rec2), Track(<<"2">>, Rec1)>>),
      ReleaseOf(<<Track(<<"1">>, Rec2)>>),
      ReleaseOf(<<Track(<<"A","1">>, Rec1)>>),
      ReleaseOf(<<[recording |-> [id |-> Rec1, title |-> StrT]]>>) }

\* the metadata the full recording reply resolves to once back-filled
ResolvedFull == TrackMetadata(StrT, StrArtist, StrL, None, SomeInt(2), SomeInt(2), SomeInt(1),
                  SomeInt(1999), Rec1, Rel1)

\* tag stores a file may start with
NoFrames == <<>>
\* the diffed fields already as ResolvedFull has them, the identifiers absent
FramesUpToDate ==
    ("TIT2" :> StrT) @@ ("TPE1" :> StrArtist) @@ ("TALB" :> StrL)
    @@ ("TRCK" :> <<"2","/","2">>) @@ ("TPOS" :> <<"1">>) @@ ("TDRC" :> <<"1","9","9","9">>)
\* an ID3v2.3 store: other values, the year in TYER
FramesOld ==
    ("TIT2" :> <<"o","l","d">>) @@ ("TYER" :> <<"1","9","8","0">>)

AudioFile(id, valid, writable, frames) ==
    [id |-> id, valid |-> valid, writable |-> writable, frames |-> frames]

Config(dry_run, output_path, folder_template, backup) ==
    [acoustid_api_key |-> "KEY", source_path |-> Src, output_path |-> output_path,
     folder_template |-> folder_template, filename_template |-> DefaultFilenameTemplate,
     dry_run |-> dry_run, backup |-> backup, backup_path |-> NoPath, limit |-> 0]

\* the configuration of a run started with --limit n
Limited(cfg, n) == [cfg EXCEPT !.limit = n]

\* the runs the model starts: a configuration and the two files' contents;
\* the run that organizes the scanned tree in place is started with --limit 2
Scenarios ==
    { [config |-> IF dry THEN Config(dry, out, DefaultFolderTemplate, bak)
                  ELSE Limited(Config(dry, out, DefaultFolderTemplate, bak), 2),
       a |-> a, b |-> b] :
        dry \in BOOLEAN, out \in {NoPath}, bak \in {FALSE},
        a \in {AudioFile(1, TRUE, TRUE, NoFrames)},
        b \in {AudioFile(2, TRUE, TRUE, FramesOld)} }
    \cup
    { [config |-> Config(dry, Out, DefaultFolderTemplate, TRUE),
       a |-> AudioFile(1, TRUE, TRUE, FramesUpToDate), b |-> b] :
        dry \in BOOLEAN,
        b \in {AudioFile(2, FALSE, TRUE, NoFrames), AudioFile(2, TRUE, FALSE, FramesOld)} }
    \cup
    { [config |-> Config(FALSE, Out, BadFolderTemplate, FALSE),
       a |-> AudioFile(1, TRUE, TRUE, NoFrames),
       b |-> AudioFile(2, TRUE, TRUE, FramesUpToDate)] }

(* ------------------------------- main.py ------------------------------ *)

VARIABLES
    config,             \* the loaded configuration, with dry_run and --limit
    fs, dirs,           \* the file tree
    clock,              \* the latest reading of time.time()
    last_request_time,  \* metadata._last_request_time
    requests,           \* when the latest two requests to the service were issued
    scan,               \* the generator scan_mp3_files(source_path) returned
    pc,                 \* where main is
    file_path,          \* the file process_file is working on
    local,              \* process_file's recording_id and metadata
    result,             \* process_file's result dict
    results,            \* main's list of results
    trace,              \* per result: the file, the replies and the stages that ran
    calls               \* the update_tags / move_file calls made directly

vars == <<config, fs, dirs, clock, last_request_time, requests, scan, pc,
          file_path, local, result, results, trace, calls>>

\* lines 88-94
PendingResult(path) ==
    [file |-> path, status |-> "pending", metadata |-> <<>>, tag_changes |-> <<>>,
     file_changes |-> <<>>, error |-> "", acoustid_score |-> NoneInt]

\* process_file's locals, with the id of the file behind file_path and the
\* replies the services gave for it
NoLocal ==
    [file |-> 0, recording_id |-> None, metadata |-> <<>>, reply |-> <<>>,
     listing |-> <<>>, ran |-> {}]

InitTree(sc) ==
    /\ fs = (FileA :> sc.a) @@ (FileB :> sc.b)
            @@ (FileX :> AudioFile(3, TRUE, TRUE, NoFrames))
    /\ dirs = {Src, Parent(FileB), Parent(FileX)}

InitClock ==
    \* time.time() is far beyond the initial 0.0 of _last_request_time
    /\ clock = MIN_REQUEST_INTERVAL
    /\ last_request_time = 0
    /\ requests = <<>>

Init ==
    \E sc \in Scenarios :
        /\ config = sc.config
        /\ InitTree(sc)
        /\ InitClock
        /\ scan = NewScan
        /\ pc = "loop"
        /\ file_path = <<>>
        /\ local = NoLocal
        /\ result = <<>>
        /\ results = <<>>
        /\ trace = <<>>
        /\ calls = <<>>

\* _rate_limit: the clock is read d1 ticks after its last reading, the call
\* sleeps, and the clock is read again d2 ticks after the sleep ended; that
\* reading is the time it records
rate_limit(d1, d2) ==
    LET now == clock + d1
    IN  now + RateLimitSleep(now - last_request_time) + d2

\* metadata.py lines 72-75 and 209-211: _rate_limit(), and then the request
\* to the service, issued d3 ticks after _rate_limit recorded its time. The
\* time the reply takes is part of the d1 of the next reading of the clock.
Request(d1, d2, d3) ==
    /\ rate_limit(d1, d2) + d3 <= MaxTime
    /\ last_request_time' = rate_limit(d1, d2)
    /\ clock' = rate_limit(d1, d2) + d3
    /\ requests' = IF Len(requests) < 2 THEN Append(requests, rate_limit(d1, d2) + d3)
                   ELSE <<requests[2], rate_limit(d1, d2) + d3>>

\* process_file returns `res`: main appends it and goes on with the loop
Return(res) ==
    /\ results' = Append(results, res)
    /\ trace' = Append(trace, [file |-> local'.file, reply |-> local'.reply,
                               listing |-> local'.listing, ran |-> local'.ran])
    /\ pc' = "loop"

\* main, lines 368-377, one turn of the loop: next() on the generator.
\* A file it yields goes to process_file, or ends the loop when --limit
\* files were taken before it; the generator being exhausted ends the
\* loop; an exception it raises is caught by nothing and ends the run.
NextFile ==
    /\ pc = "loop"
    /\ \E next \in scan_mp3_files(scan, fs, dirs, config.source_path) :
        /\ scan' = next.gen
        /\ IF next.kind = "yield" /\ ~(config.limit /= 0 /\ Len(results) >= config.limit)
           THEN /\ file_path' = next.path
                /\ result' = PendingResult(next.path)
                /\ local' = [NoLocal EXCEPT !.file = fs[next.path].id]
                /\ pc' = "identify"
           ELSE /\ pc' = IF next.kind = "raise" THEN "scan crashed" ELSE "summary"
                /\ UNCHANGED <<file_path, result, local>>
    /\ UNCHANGED <<config, fs, dirs, clock, last_request_time, requests, results,
                   trace, calls>>

\* main, lines 379-398: the results, the summary and the notice about the
\* unmatched files are printed; nothing is moved
Summary ==
    /\ pc = "summary"
    /\ pc' = "done"
    /\ UNCHANGED <<config, fs, dirs, clock, last_request_time, requests, scan,
                   file_path, local, result, results, trace, calls>>

\* process_file returns with a status before any metadata lookup
Ends(reply, status, error) ==
    /\ result' = [result EXCEPT !.status = status, !.error = error]
    /\ local' = [local EXCEPT !.reply = reply]
    /\ Return(result')

\* process_file, lines 124-130
Matched(reply, best_match, recording_id) ==
    IF ~TruthyStr(recording_id) THEN Ends(reply, "unmatched", "no recording id")
    ELSE /\ result' = [result EXCEPT !.acoustid_score = SomeInt(MatchScore(best_match))]
         /\ local' = [local EXCEPT !.reply = reply, !.recording_id = recording_id]
         /\ pc' = "resolve"
         /\ UNCHANGED <<results, trace>>

\* process_file, lines 116-122
BestMatched(reply, best_match) ==
    IF ~best_match.found THEN Ends(reply, "unmatched", "no confident match")
    ELSE Matched(reply, best_match.match, extract_recording_id(best_match.match))

\* process_file, lines 102-114
Looked(reply, looked) ==
    IF looked.exc /= "" THEN Ends(reply, "error", "fingerprinting failed")
    ELSE IF Len(looked.value) = 0 THEN Ends(reply, "unmatched", "")
    ELSE BestMatched(reply, get_best_match(looked.value))

\* process_file, lines 96-130
Identify ==
    /\ pc = "identify"
    /\ \E reply \in MatchReplies :
        IF config.acoustid_api_key \in {"", "YOUR_API_KEY_HERE"}
        THEN Ends(reply, "error", "no API key")
        ELSE Looked(reply, lookup_acoustid(reply))
    /\ UNCHANGED <<config, fs, dirs, clock, last_request_time, requests, scan,
                   file_path, calls>>

\* process_file, lines 134-140
Resolved(fetched) ==
    IF ~fetched.found
    THEN /\ result' = [result EXCEPT !.status = "error", !.error = "no metadata"]
         /\ local' = [local EXCEPT !.ran = @ \cup {"recording lookup"}]
         /\ Return(result')
    ELSE /\ local' = [local EXCEPT !.metadata = fetched.metadata,
                                   !.ran = @ \cup {"recording lookup"}]
         /\ pc' = IF TruthyStr(fetched.metadata.musicbrainz_release_id)
                     /\ ~TruthyInt(fetched.metadata.track_number)
                  THEN "backfill" ELSE "tag"
         /\ UNCHANGED <<result, results, trace>>

\* process_file, lines 132-137 and the test of line 140
Resolve ==
    /\ pc = "resolve"
    /\ \E reply \in RecordingReplies, d1 \in 0..MaxDelay, d2 \in 0..MaxDelay,
          d3 \in 0..MaxDelay :
        /\ Request(d1, d2, d3)
        /\ Resolved(fetch_metadata_by_recording_id(local.recording_id, reply))
    /\ UNCHANGED <<config, fs, dirs, scan, file_path, calls>>

\* The mutant of Backfilled: when nothing is found the total and the disc
\* number are cleared.
BackfilledOrCleared(reply, track_info) ==
    /\ local' = [local EXCEPT
          !.ran = @ \cup {"release lookup"},
          !.listing = reply,
          !.metadata = IF track_info.exc = "" /\ track_info.found
                       THEN [@ EXCEPT !.track_number = track_info.track_number,
                                      !.total_tracks = track_info.total_tracks,
                                      !.disc_number = track_info.disc_number]
                       ELSE [@ EXCEPT !.total_tracks = NoneInt,
                                      !.disc_number = NoneInt]]
    /\ pc' = IF track_info.exc /= "" THEN "crashed" ELSE "tag"

\* process_file, lines 144-147; an exception of find_track_number is caught
\* neither by process_file nor by main, and the run ends with it
Backfilled(reply, track_info) ==
    /\ local' = [local EXCEPT
          !.ran = @ \cup {"release lookup"},
          !.listing = reply,
          !.metadata = IF track_info.exc = "" /\ track_info.found
                       THEN [@ EXCEPT !.track_number = track_info.track_number,
                                      !.total_tracks = track_info.total_tracks,
                                      !.disc_number = track_info.disc_number]
                       ELSE @]
    /\ pc' = IF track_info.exc /= "" THEN "crashed" ELSE "tag"

\* process_file, lines 141-147
Backfill ==
    /\ pc = "backfill"
    /\ \E reply \in ReleaseReplies, d1 \in 0..MaxDelay, d2 \in 0..MaxDelay,
          d3 \in 0..MaxDelay :
        /\ Request(d1, d2, d3)
        /\ Backfilled(reply, find_track_number(local.recording_id, reply))
    /\ UNCHANGED <<config, fs, dirs, scan, file_path, result, results, trace, calls>>

\* a path that names no openable file reads as a file MP3() rejects
FileAt(tree, path) ==
    IF path \in DOMAIN tree THEN tree[path] ELSE AudioFile(0, FALSE, FALSE, NoFrames)

\* fs with the tag store of the file at path replaced
WithFrames(tree, path, frames) ==
    IF path \in DOMAIN tree THEN [tree EXCEPT ![path].frames = frames] ELSE tree

\* The mutant of Tagged: a failure of update_tags is ignored and the
\* organize step follows.
TaggedAndGoesOn(tagged) ==
    /\ fs' = WithFrames(fs, file_path, tagged.frames)
    /\ local' = [local EXCEPT !.ran = @ \cup {"tag"}]
    /\ result' = [result EXCEPT !.metadata = local.metadata,
                                !.tag_changes = tagged.changes]
    /\ pc' = "organize"
    /\ UNCHANGED <<results, trace>>

\* process_file, lines 149-159, `tagged` being the outcome of update_tags
Tagged(tagged) ==
    /\ fs' = WithFrames(fs, file_path, tagged.frames)
    /\ local' = [local EXCEPT !.ran = @ \cup {"tag"}]
    /\ IF tagged.exc /= ""
       THEN /\ result' = [result EXCEPT !.metadata = local.metadata,
                                        !.status = "error",
                                        !.error = "tag update failed"]
            /\ Return(result')
       ELSE /\ result' = [result EXCEPT !.metadata = local.metadata,
                                        !.tag_changes = tagged.changes]
            /\ pc' = "organize"
            /\ UNCHANGED <<results, trace>>

\* process_file, lines 149-159
Tag ==
    /\ pc = "tag"
    /\ Tagged(update_tags(FileAt(fs, file_path), local.metadata, config.dry_run))
    /\ UNCHANGED <<config, dirs, clock, last_request_time, requests, scan,
                   file_path, calls>>

\* lines 162-169: the output root and the backup root of the configuration
OutputPath(cfg) == IF cfg.output_path /= NoPath THEN cfg.output_path ELSE cfg.source_path
BackupPath(cfg) ==
    IF ~cfg.backup THEN NoPath
    ELSE IF cfg.backup_path /= NoPath THEN cfg.backup_path
    ELSE cfg.source_path \o <<StrBackup>>

\* process_file, lines 171-193, `organized` being the outcome of organize_file
Organized(organized) ==
    /\ fs' = organized.fs
    /\ dirs' = organized.dirs
    /\ local' = [local EXCEPT !.ran = @ \cup {"organize"}]
    /\ result' = IF organized.exc /= ""
                 THEN [result EXCEPT !.status = "error", !.error = "organizing failed"]
                 ELSE [result EXCEPT !.status = "success",
                                     !.file_changes = organized.result]
    /\ Return(result')

\* process_file, lines 161-193
Organize ==
    /\ pc = "organize"
    /\ Organized(organize_file(fs, dirs, file_path, local.metadata,
                     OutputPath(config), config.folder_template,
                     config.filename_template, config.dry_run, BackupPath(config)))
    /\ UNCHANGED <<config, clock, last_request_time, requests, scan, file_path, calls>>

Next ==
    \/ NextFile
    \/ Identify
    \/ Resolve
    \/ Backfill
    \/ Tag
    \/ Organize
    \/ Summary

\* one run of main over the scanned tree
Spec == Init /\ [][Next]_vars

(* ------------------- update_tags, called repeatedly ------------------- *)

\* resolved records: complete, without a release, and without a track total
TagMetadata ==
    { ResolvedFull,
      TrackMetadata(StrT, StrArtist, UnknownAlbum, None, NoneInt, NoneInt, NoneInt,
                    NoneInt, Rec1, None),
      TrackMetadata(StrT, StrArtist, StrL, StrArtist, SomeInt(2), NoneInt, NoneInt,
                    SomeInt(1999),
                    Rec1, Rel1) }

\* a store that holds the identifiers already, its year not a number
FramesTagged ==
    ("TIT2" :> StrT) @@ ("TDRC" :> <<"n","o","n","e">>)
    @@ (TXXX_RECORDING :> Rec1) @@ (TXXX_RELEASE :> Rel1)

TagStores == {NoFrames, FramesUpToDate, FramesOld, FramesTagged}

\* one file and one metadata record; nothing else takes part
InitTags ==
    \E frames \in TagStores, metadata \in TagMetadata,
       kind \in {<<TRUE, TRUE>>, <<TRUE, FALSE>>, <<FALSE, TRUE>>} :
        /\ config = Config(FALSE, NoPath, DefaultFolderTemplate, FALSE)
        /\ fs = (FileA :> AudioFile(1, kind[1], kind[2], frames))
        /\ dirs = {Src}
        /\ InitClock
        /\ scan = <<>>
        /\ pc = "tags"
        /\ file_path = FileA
        /\ local = [NoLocal EXCEPT !.metadata = metadata]
        /\ result = <<>>
        /\ results = <<>>
        /\ trace = <<>>
        /\ calls = <<>>

\* the call is logged with the store it found and its outcome
TagsUpdated(dry_run, tagged) ==
    /\ fs' = WithFrames(fs, file_path, tagged.frames)
    /\ calls' = Append(calls, [dry_run |-> dry_run, before |-> fs[file_path].frames,
                               exc |-> tagged.exc, changes |-> tagged.changes,
                               saved |-> tagged.saved, frames |-> tagged.frames])

\* update_tags(file_path, metadata, dry_run)
UpdateTags ==
    /\ pc = "tags" /\ Len(calls) < MaxCalls
    /\ \E dry_run \in BOOLEAN :
        TagsUpdated(dry_run, update_tags(FileAt(fs, file_path), local.metadata, dry_run))
    /\ UNCHANGED <<config, dirs, clock, last_request_time, requests, scan, pc,
                   file_path, local, result, results, trace>>

NextTags == UpdateTags

SpecTags == InitTags /\ [][NextTags]_vars

(* --------------------- move_file, called repeatedly ------------------- *)

\* the destinations asked for: two under the output root, and the place of
\* a file that exists from the start
MoveDestinations ==
    { Out \o << <<"t",".","m","p","3">> >>,
      Out \o << <<"n">>, <<"t",".","m","p","3">> >>,
      FileB }

\* a second file named a.mp3, in the directory of FileB
FileSubA == Parent(FileB) \o <<Name(FileA)>>

\* the tree of the pipeline runs and FileSubA; the configuration gives
\* dry_run and the backup root
InitMoves ==
    \E dry \in BOOLEAN, bak \in BOOLEAN :
        /\ config = Config(dry, Out, DefaultFolderTemplate, bak)
        /\ fs = (FileA :> AudioFile(1, TRUE, TRUE, NoFrames))
                @@ (FileB :> AudioFile(2, TRUE, TRUE, FramesOld))
                @@ (FileX :> AudioFile(3, TRUE, TRUE, NoFrames))
                @@ (FileSubA :> AudioFile(4, TRUE, TRUE, NoFrames))
        /\ dirs = {Src, Parent(FileB), Parent(FileX)}
        /\ InitClock
        /\ scan = <<>>
        /\ pc = "moves"
        /\ file_path = <<>>
        /\ local = NoLocal
        /\ result = <<>>
        /\ results = <<>>
        /\ trace = <<>>
        /\ calls = <<>>

\* the sources of the calls made so far
MovedSources == {calls[i].source : i \in 1..Len(calls)}

\* the call is logged with the tree it found and its outcome
Moved(source, destination, moved) ==
    /\ fs' = moved.fs
    /\ dirs' = moved.dirs
    /\ calls' = Append(calls, [source |-> source, destination |-> destination,
                               dry_run |-> config.dry_run,
                               before_fs |-> fs, before_dirs |-> dirs,
                               exc |-> moved.exc, result |-> moved.result])

\* move_file(source, destination, dry_run, backup_path), the source an
\* existing file that no earlier call was given
MoveFile ==
    /\ pc = "moves" /\ Len(calls) < MaxCalls
    /\ \E source \in DOMAIN fs \ MovedSources, destination \in MoveDestinations :
        Moved(source, destination,
              move_file(fs, dirs, source, destination, config.dry_run,
                        BackupPath(config)))
    /\ UNCHANGED <<config, clock, last_request_time, requests, scan, pc,
                   file_path, local, result, results, trace>>

\* move_to_unmatched(file_path, source_base_path, output_path, "_unmatched",
\* dry_run)
MoveToUnmatched ==
    /\ pc = "moves" /\ Len(calls) < MaxCalls
    /\ \E source \in DOMAIN fs \ MovedSources :
        Moved(source,
              UnmatchedPath(source, config.source_path, OutputPath(config), StrUnmatched),
              move_to_unmatched(fs, dirs, source, config.source_path,
                                OutputPath(config), StrUnmatched, config.dry_run))
    /\ UNCHANGED <<config, clock, last_request_time, requests, scan, pc,
                   file_path, local, result, results, trace>>

NextMoves ==
    \/ MoveFile
    \/ MoveToUnmatched

SpecMoves == InitMoves /\ [][NextMoves]_vars

(* ------------- sanitize_filename and build_filename alone ------------- *)

\* a specification of one function starts from an idle pipeline
InitIdle(at, input) ==
    /\ config = Config(FALSE, NoPath, DefaultFolderTemplate, FALSE)
    /\ fs = <<>>
    /\ dirs = {}
    /\ InitClock
    /\ scan = <<>>
    /\ pc = at
    /\ file_path = <<>>
    /\ local = input
    /\ result = <<>>
    /\ results = <<>>
    /\ trace = <<>>
    /\ calls = <<>>

\* the characters of the names: a letter, the three kinds of white space,
\* the period and an invalid character
NameChars == {"a", " ", "\t", "\n", ".", "/"}

\* the names of at most MaxLen characters
ShortNames == UNION {[1..k -> NameChars] : k \in 0..MaxLen}

Repeat(c, n) == [i \in 1..n |-> c]

\* names longer than the byte limit: cut after a period, after a space,
\* and inside a run of three-byte characters
LongNames ==
    { Repeat("a", MAX_NAME_BYTES - 1) \o <<".", "b">>,
      Repeat("a", MAX_NAME_BYTES - 1) \o <<" ", "b">>,
      Repeat("U+D55C", MAX_NAME_BYTES \div 3) \o <<"a", "a", "a">> }

\* filename templates: the default, "{title}", and templates str.format
\* fails on: "{genre}", "{}", "{title:02d}", "{title.x}", "{"
FilenameTemplates ==
    { DefaultFilenameTemplate,
      <<Field("title", "")>>,
      <<Field("genre", "")>>,
      <<Field("", "")>>,
      <<Field("title", "02d")>>,
      <<[field |-> "title", spec |-> "", attr |-> "x"]>>,
      <<[bad |-> TRUE]>> }

InitNames ==
    \E name \in ShortNames \cup LongNames \cup {None},
       template \in FilenameTemplates, track \in {NoneInt, SomeInt(7)} :
        InitIdle("names", [name |-> name, template |-> template, track |-> track])

\* the record build_filename is given: the drawn name as its title
NamedMetadata ==
    TrackMetadata(local.name, StrArtist, StrL, None, local.track, NoneInt, NoneInt,
                  NoneInt, Rec1, None)

Called(op) == \E i \in 1..Len(calls) : calls[i].op = op

\* sanitize_filename(name), and sanitize_filename of what it returned
SanitizeName ==
    /\ pc = "names" /\ ~Called("sanitize_filename")
    /\ calls' = Append(calls, [op |-> "sanitize_filename", exc |-> "",
                               out |-> sanitize_filename(local.name),
                               again |-> sanitize_filename(sanitize_filename(local.name))])
    /\ UNCHANGED <<config, fs, dirs, clock, last_request_time, requests, scan, pc,
                   file_path, local, result, results, trace>>

\* the call is logged with what it returned or raised
NameBuilt(built) ==
    calls' = Append(calls, [op |-> "build_filename", exc |-> built.exc,
                            out |-> built.name, again |-> built.name])

\* build_filename(metadata, template)
BuildName ==
    /\ pc = "names" /\ ~Called("build_filename")
    /\ NameBuilt(build_filename(NamedMetadata, local.template))
    /\ UNCHANGED <<config, fs, dirs, clock, last_request_time, requests, scan, pc,
                   file_path, local, result, results, trace>>

NextNames ==
    \/ SanitizeName
    \/ BuildName

SpecNames == InitNames /\ [][NextNames]_vars

(* ---------- _select_best_release and get_best_match alone ------------- *)

\* the catalog's words for a release
CatOfficial == <<"O","f","f","i","c","i","a","l">>
CatBootleg  == <<"B","o","o","t","l","e","g">>
CatAlbum    == <<"A","l","b","u","m">>
CatEP       == <<"E","P">>
CatSingle   == <<"S","i","n","g","l","e">>
CatOther    == <<"O","t","h","e","r">>

\* a release of the catalog; a status of None is a release without status
ReleaseKind(status, primary_type, secondary_types) ==
    (IF status = None THEN <<>> ELSE ("status" :> status))
    @@ ("release-group" :> (("primary-type" :> primary_type)
                            @@ ("secondary-type-list" :> secondary_types)))

ReleaseKinds ==
    { ReleaseKind(status, primary_type, secondary_types) :
        status \in {CatOfficial, CatBootleg, None},
        primary_type \in {CatAlbum, CatEP, CatSingle, CatOther},
        secondary_types \in {<<>>, <<Compilation>>} }

\* the k-th release of a list carries k as its id and its title
Numbered(kinds) ==
    [k \in 1..Len(kinds) |->
        kinds[k] @@ ("id" :> IntToStr(k)) @@ ("title" :> <<"L">> \o IntToStr(k))]

\* the lists of at most n elements of a set
ListsOf(set, n) == UNION {[1..k -> set] : k \in 0..n}

\* match candidates: with a score or without, the recording they carry
CandidateKinds ==
    { ("recordings" :> <<Recording(id)>>) @@ scored :
        id \in {Rec1, Rec2},
        scored \in {<<>>} \cup {("score" :> n) : n \in {30, 50, 90}} }

InitSelect ==
    \/ \E kinds \in ListsOf(ReleaseKinds, MaxList) :
          InitIdle("select", [kind |-> "releases", list |-> Numbered(kinds)])
    \/ \E matches \in ListsOf(CandidateKinds, MaxList) :
          InitIdle("select", [kind |-> "matches", list |-> matches])

\* _select_best_release(releases)
SelectRelease ==
    /\ pc = "select" /\ local.kind = "releases" /\ Len(calls) = 0
    /\ calls' = Append(calls, [list |-> local.list,
                               out |-> select_best_release(local.list)])
    /\ UNCHANGED <<config, fs, dirs, clock, last_request_time, requests, scan, pc,
                   file_path, local, result, results, trace>>

\* get_best_match(matches)
BestMatch ==
    /\ pc = "select" /\ local.kind = "matches" /\ Len(calls) = 0
    /\ calls' = Append(calls, [list |-> local.list, out |-> get_best_match(local.list)])
    /\ UNCHANGED <<config, fs, dirs, clock, last_request_time, requests, scan, pc,
                   file_path, local, result, results, trace>>

\* list with x put in as its k-th element
Inserted(list, k, x) == SubSeq(list, 1, k - 1) \o <<x>> \o SubSeq(list, k, Len(list))

\* get_best_match of the list with one more candidate somewhere in it
BestMatchWithOneMore ==
    /\ pc = "select" /\ local.kind = "matches" /\ Len(calls) = 1
    /\ \E x \in CandidateKinds, k \in 1..(Len(local.list) + 1) :
        /\ local' = [local EXCEPT !.list = Inserted(local.list, k, x)]
        /\ calls' = Append(calls, [list |-> local'.list,
                                   out |-> get_best_match(local'.list)])
    /\ UNCHANGED <<config, fs, dirs, clock, last_request_time, requests, scan, pc,
                   file_path, result, results, trace>>

NextSelect ==
    \/ SelectRelease
    \/ BestMatch
    \/ BestMatchWithOneMore

SpecSelect == InitSelect /\ [][NextSelect]_vars

(* ------------------------------ properties ---------------------------- *)

Last(s) == s[Len(s)]

\* C1: a failure raised in any stage of the pipeline (match lookup, metadata
\* lookup, track-number back-fill, tag update, organize) is caught inside
\* process_file, so that no failure of one file ever ends the run before the
\* later files are processed.
C1_NoFailureEndsTheRun == pc /= "crashed"

\* the deltas a successful dry run returns: the tag delta computed against
\* the untouched store, and the intended move, not made
DryRunDeltas(r) ==
    r.status = "success" =>
        /\ r.tag_changes = TagChanges(read_current_tags(fs[r.file].frames), r.metadata)
        /\ r.file_changes.source = r.file
        /\ r.file_changes.destination =
               get_new_path(OutputPath(config), r.metadata, config.folder_template,
                            config.filename_template).path
        /\ ~r.file_changes.moved /\ ~r.file_changes.backed_up

\* C2: in dry-run mode no step of the pipeline, whatever the file's outcome,
\* changes the file tree or a tag store, and the result of every file that
\* succeeded so far carries the computed tag delta and the source and
\* destination of the intended move.
C2_DryRunChangesNothing ==
    [][config.dry_run =>
          /\ fs' = fs
          /\ dirs' = dirs
          /\ \A i \in 1..Len(results) : DryRunDeltas(results[i])]_vars

\* a dry run gave a file a non-empty tag delta and a move to another path,
\* and the file is where it was
C2_Witness ==
    /\ config.dry_run
    /\ \E i \in 1..Len(results) :
        /\ results[i].status = "success"
        /\ DOMAIN results[i].tag_changes /= {}
        /\ results[i].file_changes.destination /= results[i].file
        /\ results[i].file \in DOMAIN fs
        /\ results[i].file_changes.destination \notin DOMAIN fs

\* C3: when an apply run is over, every file that ended "unmatched" is no
\* longer where it was and is found under output_root/unmatched_folder at
\* its path relative to the scan root.
C3_UnmatchedFilesAreMoved ==
    (pc = "done" /\ ~config.dry_run) =>
        \A i \in 1..Len(results) :
            results[i].status = "unmatched" =>
                /\ results[i].file \notin DOMAIN fs
                /\ UnmatchedPath(results[i].file, config.source_path,
                                 OutputPath(config), StrUnmatched) \in DOMAIN fs

\* the files of the tree when call i returned
AfterFs(i) == IF i < Len(calls) THEN calls[i + 1].before_fs ELSE fs

\* the default backup root of the configuration
BackupRoot == Src \o <<StrBackup>>

\* every file the call found, its source and the backups apart, is still
\* there with its content
KeptFiles(c, after) ==
    \A p \in DOMAIN c.before_fs :
        (p /= c.source /\ ~IsUnder(p, BackupRoot)) =>
            p \in DOMAIN after /\ after[p] = c.before_fs[p]

\* the returned destination is the one asked for if that was free, and
\* otherwise the first free "<stem> (k)<suffix>"
FirstFreeName(c) ==
    IF ~Exists(c.before_fs, c.before_dirs, c.destination)
    THEN c.result.destination = c.destination
    ELSE \E k \in 1..(Cardinality(DOMAIN c.before_fs) + 1) :
            /\ c.result.destination = NumberedPath(c.destination, k)
            /\ ~Exists(c.before_fs, c.before_dirs, NumberedPath(c.destination, k))
            /\ \A j \in 1..(k - 1) :
                   Exists(c.before_fs, c.before_dirs, NumberedPath(c.destination, j))

\* C4: over any sequence of move_file calls with distinct existing sources
\* (the backup root outside the destinations), no call overwrites or removes
\* a file it found, and an apply-mode move puts the source's content at the
\* destination asked for or, that being taken, at its first free numbered
\* name, which is the destination it returns.
C4_MoveNeverOverwrites ==
    \A i \in 1..Len(calls) :
        /\ KeptFiles(calls[i], AfterFs(i))
        /\ (~calls[i].dry_run /\ calls[i].exc = ""
              /\ calls[i].source /= calls[i].destination) =>
                /\ FirstFreeName(calls[i])
                /\ calls[i].result.moved
                /\ calls[i].result.destination \in DOMAIN AfterFs(i)
                /\ AfterFs(i)[calls[i].result.destination]
                       = calls[i].before_fs[calls[i].source]

\* two sources were moved to the same destination: the first is there, the
\* second beside it under the name suffixed " (1)"
C4_Witness ==
    \E i, j \in 1..Len(calls) :
        /\ i < j
        /\ calls[i].destination = calls[j].destination
        /\ calls[i].result.moved /\ calls[j].result.moved
        /\ calls[i].result.destination = calls[i].destination
        /\ calls[j].result.destination = NumberedPath(calls[j].destination, 1)
        /\ {calls[i].result.destination, calls[j].result.destination} \subseteq DOMAIN fs
        /\ fs[calls[i].result.destination].id /= fs[calls[j].result.destination].id

\* C5: any two consecutive requests to the metadata service, recording and
\* release lookups alike and across files, are issued at least the minimum
\* interval apart, and the recorded time of the last request never
\* decreases.
C5_RequestsAreSpaced ==
    [][/\ last_request_time' >= last_request_time
       /\ Len(requests') = 2 =>
              requests'[2] - requests'[1] >= MIN_REQUEST_INTERVAL]_vars

\* C6: a file whose fingerprint could not be extracted, or whose match
\* lookup met a transport or service error, ends with the outcome "error".
C6_FingerprintFailureIsAnError ==
    \A i \in 1..Len(results) :
        trace[i].reply.kind \in {"fingerprint_error", "webservice_error"} =>
            results[i].status = "error"

\* the candidates of a reply of the match service
Candidates(reply) ==
    IF reply.kind = "response" /\ reply.results.status = "ok"
    THEN reply.results.results ELSE <<>>

\* the service answered and returned no candidate
NoCandidate(reply) ==
    reply.kind = "response" /\ reply.results.status = "ok"
        /\ Len(reply.results.results) = 0

\* every candidate scores below 0.5
LowScore(reply) ==
    /\ Len(Candidates(reply)) > 0
    /\ \A k \in 1..Len(Candidates(reply)) : MatchScore(Candidates(reply)[k]) < MinScore

\* the chosen candidate carries no recording identifier
NoRecordingId(reply) ==
    /\ Len(Candidates(reply)) > 0
    /\ ~LowScore(reply)
    /\ ~TruthyStr(extract_recording_id(get_best_match(Candidates(reply)).match))

\* C7: a file ends "unmatched" exactly when the match service returned no
\* candidate, or no candidate scores 0.5 or more, or the chosen candidate
\* has no recording identifier; and then no metadata lookup, tag step or
\* organize step ran and both deltas of the result are empty.
C7_UnmatchedExactlyWhenNoMatch ==
    \A i \in 1..Len(results) :
        /\ results[i].status = "unmatched" <=>
              \/ NoCandidate(trace[i].reply)
              \/ LowScore(trace[i].reply)
              \/ NoRecordingId(trace[i].reply)
        /\ results[i].status = "unmatched" =>
              /\ trace[i].ran = {}
              /\ DOMAIN results[i].tag_changes = {}
              /\ DOMAIN results[i].file_changes = {}

\* C8: once update_tags has applied a metadata record to a file, every later
\* update_tags with the same record on that file returns an empty change
\* set, saves nothing and leaves the store as it found it.
C8_TagApplicationIsIdempotent ==
    \A i, j \in 1..Len(calls) :
        (i < j /\ ~calls[i].dry_run /\ calls[i].exc = "") =>
            /\ calls[j].exc = ""
            /\ DOMAIN calls[j].changes = {}
            /\ ~calls[j].saved
            /\ calls[j].frames = calls[j].before

\* a store holding TYER was rewritten by a first application, and a second
\* application followed
C8_Witness ==
    /\ Len(calls) >= 2
    /\ ~calls[1].dry_run /\ calls[1].saved
    /\ "year" \in DOMAIN calls[1].changes
    /\ "TYER" \in DOMAIN calls[1].before
    /\ ~calls[2].dry_run
    /\ DOMAIN calls[2].changes = {}

\* C9: after an apply-mode update_tags that returned, the file's store holds
\* every identifier the metadata carries, whatever the store held before and
\* whatever the change set of the other fields is.
C9_IdentifiersArePersisted ==
    \A i \in 1..Len(calls) :
        (~calls[i].dry_run /\ calls[i].exc = "") =>
            /\ TruthyStr(local.metadata.musicbrainz_recording_id) =>
                   Get(calls[i].frames, TXXX_RECORDING, None)
                       = local.metadata.musicbrainz_recording_id
            /\ TruthyStr(local.metadata.musicbrainz_release_id) =>
                   Get(calls[i].frames, TXXX_RELEASE, None)
                       = local.metadata.musicbrainz_release_id

\* the tag step of the file in hand raises
TagStepFails ==
    update_tags(FileAt(fs, file_path), local.metadata, config.dry_run).exc /= ""

\* C10: when the tag step of a file fails, process_file returns at once with
\* the outcome "error": the organize step does not run for the file, and the
\* file tree is as it was, the file at its original path.
C10_TagFailureLeavesTheFile ==
    [][(pc = "tag" /\ TagStepFails) =>
          /\ pc' = "loop"
          /\ Last(results').file = file_path
          /\ Last(results').status = "error"
          /\ "organize" \notin Last(trace').ran
          /\ fs' = fs
          /\ dirs' = dirs
          /\ file_path \in DOMAIN fs']_vars

\* in an apply run a file's tag step failed: its result is an error, the
\* organize step did not run and the file is at its path
C10_Witness ==
    /\ ~config.dry_run
    /\ \E i \in 1..Len(results) :
        /\ results[i].status = "error"
        /\ results[i].error = "tag update failed"
        /\ "tag" \in trace[i].ran /\ "organize" \notin trace[i].ran
        /\ results[i].file \in DOMAIN fs

\* the outcome of the call of `op`
CallOf(op) == calls[CHOOSE i \in 1..Len(calls) : calls[i].op = op]

\* C11: sanitize_filename is idempotent: for every name, names with leading
\* or trailing tabs and newlines, periods next to white space and names long
\* enough to be cut included, sanitizing the sanitized name returns it.
C11_SanitizeIsIdempotent ==
    Called("sanitize_filename") =>
        CallOf("sanitize_filename").again = CallOf("sanitize_filename").out

\* C12: what sanitize_filename returns holds no invalid character, neither
\* starts nor ends with white space or a period, holds no two white-space
\* characters in a row, is at most 200 UTF-8 bytes long and is not empty.
C12_SanitizedNameIsClean ==
    Called("sanitize_filename") =>
        LET out == CallOf("sanitize_filename").out
        IN  /\ \A i \in 1..Len(out) : out[i] \notin INVALID_CHARS
            /\ Len(out) > 0
            /\ out[1] \notin Whitespace \cup {"."}
            /\ out[Len(out)] \notin Whitespace \cup {"."}
            /\ \A i \in 1..(Len(out) - 1) :
                   ~(out[i] \in Whitespace /\ out[i + 1] \in Whitespace)
            /\ Utf8Bytes(out) <= MAX_NAME_BYTES

\* the name build_filename falls back to
FallbackOf(metadata) ==
    (IF TruthyInt(metadata.track_number)
     THEN ZeroPad2(IntOf(metadata.track_number)) \o <<" ", "-", " ">> ELSE <<>>)
    \o sanitize_filename(metadata.title) \o DotMp3

\* C13: build_filename never raises and returns a name ending in ".mp3";
\* when substituting the template fails, for whatever reason, the name is
\* "<two-digit track> - <sanitized title>.mp3", or "<sanitized title>.mp3"
\* without a track number.
C13_BuildFilenameNeverRaises ==
    Called("build_filename") =>
        /\ CallOf("build_filename").exc = ""
        /\ Len(CallOf("build_filename").out) >= Len(DotMp3)
        /\ SubSeq(CallOf("build_filename").out,
                  Len(CallOf("build_filename").out) - Len(DotMp3) + 1,
                  Len(CallOf("build_filename").out)) = DotMp3
        /\ Format(local.template, FilenameVariables(NamedMetadata)).exc /= "" =>
               CallOf("build_filename").out = FallbackOf(NamedMetadata)

\* the track listing is unavailable, or none of its entries is the recording
NoEntry(reply, recording_id) ==
    \/ reply.kind /= "response"
    \/ \A m \in 1..Len(reply.result["release"]["medium-list"]) :
         \A t \in 1..Len(reply.result["release"]["medium-list"][m]["track-list"]) :
            reply.result["release"]["medium-list"][m]["track-list"][t].recording.id
                /= recording_id

\* C14, as the code has it: when the back-fill finds no entry for the
\* recording, or no listing, the file goes on to the tag step without an
\* error, its metadata as the release selection left it: the track number
\* unset, the total and the disc number what the chosen release gave.
C14_BackfillMissKeepsMetadata ==
    [][(pc = "backfill" /\ pc' /= "backfill"
            /\ NoEntry(local'.listing, local.recording_id)) =>
          /\ pc' = "tag"
          /\ result' = result
          /\ local'.metadata = local.metadata
          /\ local'.metadata.track_number = NoneInt]_vars

\* C14, as stated: when the back-fill finds no entry for the recording, or
\* no listing, the metadata handed to the tag step has track_number,
\* total_tracks and disc_number all unset, and the file gets no error.
C14_BackfillMissUnsetsNumbering ==
    [][(pc = "backfill" /\ pc' /= "backfill"
            /\ NoEntry(local'.listing, local.recording_id)) =>
          /\ pc' = "tag"
          /\ result' = result
          /\ local'.metadata.track_number = NoneInt
          /\ local'.metadata.total_tracks = NoneInt
          /\ local'.metadata.disc_number = NoneInt]_vars

\* a listing without the recording was fetched, and the file is at the tag
\* step with the release's track count and no track number
C14_Witness ==
    /\ pc = "tag"
    /\ "release lookup" \in local.ran
    /\ local.listing.kind = "response"
    /\ NoEntry(local.listing, local.recording_id)
    /\ local.metadata.track_number = NoneInt
    /\ local.metadata.total_tracks /= NoneInt

\* the score the claim gives a release of the catalog
ClaimedScore(release) ==
    (IF "status" \in DOMAIN release /\ release["status"] = CatOfficial THEN 100 ELSE 0)
    + (CASE release["release-group"]["primary-type"] = CatAlbum -> 50
         [] release["release-group"]["primary-type"] = CatEP -> 40
         [] release["release-group"]["primary-type"] = CatSingle -> 30
         [] OTHER -> 0)
    + (IF \A i \in 1..Len(release["release-group"]["secondary-type-list"]) :
             release["release-group"]["secondary-type-list"][i] /= Compilation
       THEN 20 ELSE 0)

\* the k-th release has the greatest claimed score, and is the first such
FirstOfTheBest(list, k) ==
    /\ \A j \in 1..Len(list) : ClaimedScore(list[j]) <= ClaimedScore(list[k])
    /\ \A j \in 1..(k - 1) : ClaimedScore(list[j]) < ClaimedScore(list[k])

\* C15: for a non-empty list of releases, _select_best_release takes the
\* album title and the release id from the release whose score (100 for
\* official, 50/40/30 for album/EP/single, 20 when not a compilation) is
\* the greatest, the earliest of the list when several have that score.
C15_BestReleaseIsFirstMaximum ==
    \A i \in 1..Len(calls) :
        (local.kind = "releases" /\ Len(calls[i].list) > 0) =>
            \E k \in 1..Len(calls[i].list) :
                /\ FirstOfTheBest(calls[i].list, k)
                /\ calls[i].out["album"] = calls[i].list[k]["title"]
                /\ calls[i].out["release_id"] = calls[i].list[k]["id"]

\* of two releases with the same score, the second of the list an official
\* album, the first was chosen
C15_Witness ==
    /\ local.kind = "releases"
    /\ Len(calls) = 1
    /\ Len(calls[1].list) = 2
    /\ ClaimedScore(calls[1].list[1]) = ClaimedScore(calls[1].list[2])
    /\ ClaimedScore(calls[1].list[2]) = 170
    /\ calls[1].out["release_id"] = calls[1].list[1]["id"]

\* the score of a candidate, one without a score counting 0
ClaimedMatchScore(m) == IF "score" \in DOMAIN m THEN m["score"] ELSE 0

\* the score of what get_best_match returned, below every score for None
SelectedScore(out) == IF out.found THEN ClaimedMatchScore(out.match) ELSE -1

\* C16: get_best_match returns None for an empty list and for a list whose
\* greatest score is below 0.5, and otherwise the first candidate of the
\* list whose score is the greatest; so a list with one more candidate
\* never selects a candidate of lower score.
C16_BestMatchIsFirstMaximum ==
    \A i \in 1..Len(calls) :
        local.kind = "matches" =>
            /\ calls[i].out.found <=>
                  \E k \in 1..Len(calls[i].list) :
                      ClaimedMatchScore(calls[i].list[k]) >= MinScore
            /\ calls[i].out.found =>
                  \E k \in 1..Len(calls[i].list) :
                      /\ calls[i].out.match = calls[i].list[k]
                      /\ \A j \in 1..Len(calls[i].list) :
                            ClaimedMatchScore(calls[i].list[j])
                                <= ClaimedMatchScore(calls[i].list[k])
                      /\ \A j \in 1..(k - 1) :
                            ClaimedMatchScore(calls[i].list[j])
                                < ClaimedMatchScore(calls[i].list[k])
                            \/ calls[i].list[j] = calls[i].list[k]
            /\ \A j \in 1..(i - 1) :
                  SelectedScore(calls[j].out) <= SelectedScore(calls[i].out)

\* two different candidates share the greatest score and the first was
\* returned; then a candidate of higher score was added and returned
C16_Witness ==
    /\ local.kind = "matches"
    /\ Len(calls) = 2
    /\ Len(calls[1].list) = 2
    /\ calls[1].list[1] /= calls[1].list[2]
    /\ ClaimedMatchScore(calls[1].list[1]) = ClaimedMatchScore(calls[1].list[2])
    /\ calls[1].out.found
    /\ calls[1].out.match = calls[1].list[1]
    /\ SelectedScore(calls[2].out) > SelectedScore(calls[1].out)

\* a numeric field of TrackMetadata is unset or a positive integer
UnsetOrPositive(x) == x = NoneInt \/ IntOf(x) > 0

\* C17: the metadata process_file hands to update_tags and to organize_file
\* has each of track_number, total_tracks, disc_number and year unset or
\* positive, never 0.
C17_NumericFieldsArePositive ==
    pc \in {"tag", "organize"} =>
        /\ UnsetOrPositive(local.metadata.track_number)
        /\ UnsetOrPositive(local.metadata.total_tracks)
        /\ UnsetOrPositive(local.metadata.disc_number)
        /\ UnsetOrPositive(local.metadata.year)

\* the call moved its source and made a backup of it first
BackedUp(c) == c.exc = "" /\ c.result.moved /\ c.result.backed_up

\* C19: with a backup root configured, after any sequence of moves of files
\* from outside the backup root, the backup root holds a copy of the
\* original content of every file that was backed up and moved.
C19_BackupsAreKept ==
    (\A i \in 1..Len(calls) : ~IsUnder(calls[i].source, BackupRoot)) =>
        \A i \in 1..Len(calls) :
            BackedUp(calls[i]) =>
                \E p \in DOMAIN fs :
                    /\ IsUnder(p, BackupRoot)
                    /\ fs[p] = calls[i].before_fs[calls[i].source]

\* the files process_file was invoked for so far, by their ids, the
\* invocation under way last
Processed ==
    [i \in 1..Len(trace) |-> trace[i].file]
    \o (IF pc \in {"identify", "resolve", "backfill", "tag", "organize"}
        THEN <<local.file>> ELSE <<>>)

\* C18: within one apply run process_file is invoked at most once for each
\* physical file; a file that was moved to its destination is not yielded
\* again by scan_mp3_files.
C18_EachFileIsProcessedOnce ==
    ~config.dry_run =>
        \A i, j \in 1..Len(Processed) : Processed[i] = Processed[j] => i = j

====
